---- MODULE Spec2Model ----
(***************************************************************************)
(* The consistent-hashing ring of src/sample-implementation.js             *)
(* (class ConsistentHash): virtual-node placement, the position -> server  *)
(* map, the sorted position array, the binary-search lookup and the        *)
(* membership operations.                                                  *)
(*                                                                         *)
(* The MD5-derived hash is an arbitrary but fixed function from strings to *)
(* positions: it is chosen once, in Init, so that every collision pattern  *)
(* between the virtual-node keys occurs.  getServer reads a key only       *)
(* through hash(key), so the lookup keys are taken one per position.       *)
(***************************************************************************)
EXTENDS Integers, Sequences, FiniteSets, TLC

\* ----------------------------------------------------------------- bounds

\* Positions are 0..MaxPos (the source's are 0..2^32-1).
MaxPos == 2

\* virtualNodes is chosen at construction in 1..MaxVirtualNodes.
MaxVirtualNodes == 2

\* getDistribution samples the keys key_0 .. key_(NumSampleKeys-1) (the source
\* samples 10000 of them): as many as there are positions, one hashing to each.
NumSampleKeys == MaxPos + 1

\* ------------------------------------------------------------- the domain

Servers == {"server1", "server2", "server3"}

Positions == 0..MaxPos

\* `${server}:${i}`
VirtualKey(server, i) == <<server, i>>

\* `key_${i}`
SampleKey(i) == <<"key_", i>>

Keys == {SampleKey(i) : i \in 0..(NumSampleKeys - 1)}

\* The virtual-node keys of a ring built with v virtual nodes.
VirtualKeys(v) == {VirtualKey(s, i) : s \in Servers, i \in 0..(v - 1)}

\* Every string the model hashes.
HashInputs(v) == VirtualKeys(v) \cup Keys

\* The hash functions of the model: any positions for the virtual-node keys,
\* and key_i at position MaxPos - i.
HashFunctions(v) ==
    {[k \in HashInputs(v) |-> IF k \in Keys THEN MaxPos - k[2] ELSE vh[k]] :
        vh \in [VirtualKeys(v) -> Positions]}

Undefined == "undefined"
NoError == "none"
NoServersAvailable == "No servers available"
NaN == "NaN"

EmptyMap == [p \in {} |-> Undefined]

VARIABLES
    virtualNodes,     \* this.virtualNodes
    ring,             \* this.ring: position -> server
    servers,          \* this.servers
    sortedPositions,  \* this.sortedPositions
    hashOf,           \* the hash function: string -> position
    lastCall,         \* the last completed call: operation, argument, outcome
    removed,          \* history: the servers removed and not added again since
    before,           \* history: servers, ring and sortedPositions as they were
                      \* before the last call, if it was an addServer that added
    search            \* the loop of a getServer call in progress: left, right

vars == <<virtualNodes, ring, servers, sortedPositions, hashOf, lastCall, removed,
          before, search>>

\* ------------------------------------------------------------ Map helpers

\* A faulty variant: an occupied position keeps its first owner.
MapSet_KeepFirst(m, k, v) ==
    [x \in (DOMAIN m) \cup {k} |-> IF x \in DOMAIN m THEN m[x] ELSE v]

\* Map.prototype.set
MapSet(m, k, v) == [x \in (DOMAIN m) \cup {k} |-> IF x = k THEN v ELSE m[x]]

\* Map.prototype.delete
MapDelete(m, k) == [x \in (DOMAIN m) \ {k} |-> m[x]]

\* ------------------------------------------------------------------- hash

hash(key) == hashOf[key]

\* The positions of a server's virtual nodes.
VirtualPositions(server) ==
    {hash(VirtualKey(server, i)) : i \in 0..(virtualNodes - 1)}

\* ------------------------------------------------ updateSortedPositions

\* Array.prototype.sort((a, b) => a - b) of a set of distinct numbers.
RECURSIVE SortAscending(_)
SortAscending(S) ==
    IF S = {} THEN <<>>
    ELSE LET least == CHOOSE x \in S : \A y \in S : x <= y
         IN  <<least>> \o SortAscending(S \ {least})

\* A faulty variant: the comparator reversed, (a, b) => b - a.
RECURSIVE SortDescending(_)
SortDescending(S) ==
    IF S = {} THEN <<>>
    ELSE LET most == CHOOSE x \in S : \A y \in S : x >= y
         IN  <<most>> \o SortDescending(S \ {most})

updateSortedPositions_Descending(r) == SortDescending(DOMAIN r)

updateSortedPositions(r) == SortAscending(DOMAIN r)

\* -------------------------------------------------------------- addServer

\* A faulty variant: the loop stops one virtual node early.
RECURSIVE SetVirtualNodes_OneShort(_, _, _)
SetVirtualNodes_OneShort(r, server, i) ==
    IF i < virtualNodes - 1
    THEN SetVirtualNodes_OneShort(MapSet(r, hash(VirtualKey(server, i)), server),
                                  server, i + 1)
    ELSE r

\* The loop of addServer from index i on: ring.set(hash(`${server}:${i}`), server).
RECURSIVE SetVirtualNodes(_, _, _)
SetVirtualNodes(r, server, i) ==
    IF i < virtualNodes
    THEN SetVirtualNodes(MapSet(r, hash(VirtualKey(server, i)), server), server, i + 1)
    ELSE r

\* ----------------------------------------------------------- removeServer

\* A faulty variant: the loop stops one virtual node early.
RECURSIVE DeleteVirtualNodes_OneShort(_, _, _)
DeleteVirtualNodes_OneShort(r, server, i) ==
    IF i < virtualNodes - 1
    THEN DeleteVirtualNodes_OneShort(MapDelete(r, hash(VirtualKey(server, i))),
                                     server, i + 1)
    ELSE r

\* A faulty variant: the loop starts at the second virtual node.
RECURSIVE DeleteVirtualNodes_SkipFirst(_, _, _)
DeleteVirtualNodes_SkipFirst(r, server, i) ==
    IF i < virtualNodes
    THEN DeleteVirtualNodes_SkipFirst(
             IF i = 0 THEN r ELSE MapDelete(r, hash(VirtualKey(server, i))), server, i + 1)
    ELSE r

\* The loop of removeServer from index i on: ring.delete(hash(`${server}:${i}`)).
RECURSIVE DeleteVirtualNodes(_, _, _)
DeleteVirtualNodes(r, server, i) ==
    IF i < virtualNodes
    THEN DeleteVirtualNodes(MapDelete(r, hash(VirtualKey(server, i))), server, i + 1)
    ELSE r

\* -------------------------------------------------------------- getServer

\* The while loop of getServer on 0-based indices left, right into sp.
RECURSIVE BinarySearch(_, _, _, _)
BinarySearch(sp, position, left, right) ==
    IF left < right
    THEN LET mid == (left + right) \div 2
         IN  IF sp[mid + 1] < position
             THEN BinarySearch(sp, position, mid + 1, right)
             ELSE BinarySearch(sp, position, left, mid)
    ELSE left

\* A faulty variant: no wraparound past the last position.
ServerPosition_NoWrap(sp, position) ==
    sp[BinarySearch(sp, position, 0, Len(sp) - 1) + 1]

\* A faulty variant: the position picked by modulo, as in simple hashing.
ServerPosition_Modulo(sp, position) == sp[(position % Len(sp)) + 1]

\* A faulty variant: past the last position, the key's own position is taken.
ServerPosition_RawPosition(sp, position) ==
    LET left == BinarySearch(sp, position, 0, Len(sp) - 1)
    IN  IF sp[left + 1] >= position THEN sp[left + 1] ELSE position

\* The position getServer settles on for a hashed position, sp non-empty.
ServerPosition(sp, position) ==
    LET left == BinarySearch(sp, position, 0, Len(sp) - 1)
    IN  IF sp[left + 1] >= position THEN sp[left + 1] ELSE sp[1]

\* Map.prototype.get
MapGet(m, k) == IF k \in DOMAIN m THEN m[k] ELSE Undefined

\* getServer(key) on ring r and sorted array sp: the error thrown and the value returned.
getServer(r, sp, key) ==
    IF Len(sp) = 0
    THEN [error |-> NoServersAvailable, result |-> Undefined]
    ELSE [error |-> NoError, result |-> MapGet(r, ServerPosition(sp, hash(key)))]

\* -------------------------------------------------------- getDistribution

\* A faulty variant: distribution[server] = 1.
Increment_Reset(d, server) ==
    IF server \in DOMAIN d THEN [d EXCEPT ![server] = 1] ELSE MapSet(d, server, NaN)

\* distribution[server]++
Increment(d, server) ==
    IF server \in DOMAIN d THEN [d EXCEPT ![server] = @ + 1] ELSE MapSet(d, server, NaN)

\* The sampling loop of getDistribution from index i on.
RECURSIVE SampleFrom(_, _, _, _)
SampleFrom(r, sp, d, i) ==
    IF i < NumSampleKeys
    THEN LET got == getServer(r, sp, SampleKey(i))
         IN  IF got.error # NoError
             THEN [error |-> got.error, distribution |-> EmptyMap]
             ELSE SampleFrom(r, sp, Increment(d, got.result), i + 1)
    ELSE [error |-> NoError, distribution |-> d]

getDistribution(r, sp, srv) == SampleFrom(r, sp, [s \in srv |-> 0], 0)

\* ---------------------------------------------------------------- actions

\* A completed call: what was called with what, what it logged, the error it
\* threw, the server it returned, the distribution it returned.
Call(op, server, key, log, error, result, distribution) ==
    [op |-> op, server |-> server, key |-> key, log |-> log, error |-> error,
     result |-> result, distribution |-> distribution]

NoLog == ""

NoKey == <<>>
NoServer == ""

\* The three fields of a ring that change.
Snapshot(srv, r, sp) == [servers |-> srv, ring |-> r, sortedPositions |-> sp]

NoSnapshot == Snapshot({}, EmptyMap, <<>>)

\* A getServer call in its loop, and no such call.
Searching(key, position, left, right) ==
    [pc |-> "loop", key |-> key, position |-> position, left |-> left, right |-> right]

Idle == [pc |-> "idle", key |-> NoKey, position |-> 0, left |-> 0, right |-> 0]

\* new ConsistentHash(v)
Init ==
    /\ virtualNodes \in 1..MaxVirtualNodes
    /\ ring = EmptyMap
    /\ servers = {}
    /\ sortedPositions = <<>>
    /\ hashOf \in HashFunctions(virtualNodes)
    /\ lastCall = Call("constructor", NoServer, NoKey, NoLog, NoError, Undefined, EmptyMap)
    /\ removed = {}
    /\ before = NoSnapshot
    /\ search = Idle

\* A faulty variant: no early return for a server already registered.
AddServer_NoGuard(server) ==
    /\ lastCall' = Call("addServer", server, NoKey,
                        IF server \in servers THEN "already exists" ELSE "Added",
                        NoError, Undefined, EmptyMap)
    /\ servers' = servers \cup {server}
    /\ ring' = SetVirtualNodes(ring, server, 0)
    /\ sortedPositions' = updateSortedPositions(ring')
    /\ removed' = removed \ {server}
    /\ before' = IF server \in servers THEN NoSnapshot
                 ELSE Snapshot(servers, ring, sortedPositions)
    /\ UNCHANGED <<virtualNodes, hashOf, search>>

\* A faulty variant: the new positions are appended to sortedPositions.
AddServer_Append(server) ==
    /\ lastCall' = Call("addServer", server, NoKey,
                        IF server \in servers THEN "already exists" ELSE "Added",
                        NoError, Undefined, EmptyMap)
    /\ IF server \in servers
       THEN /\ UNCHANGED <<servers, ring, sortedPositions, removed>>
            /\ before' = NoSnapshot
       ELSE /\ servers' = servers \cup {server}
            /\ ring' = SetVirtualNodes(ring, server, 0)
            /\ sortedPositions' =
                  sortedPositions \o SortAscending((DOMAIN ring') \ (DOMAIN ring))
            /\ removed' = removed \ {server}
            /\ before' = Snapshot(servers, ring, sortedPositions)
    /\ UNCHANGED <<virtualNodes, hashOf, search>>

AddServer(server) ==
    /\ lastCall' = Call("addServer", server, NoKey,
                        IF server \in servers THEN "already exists" ELSE "Added",
                        NoError, Undefined, EmptyMap)
    /\ IF server \in servers
       THEN /\ UNCHANGED <<servers, ring, sortedPositions, removed>>
            /\ before' = NoSnapshot
       ELSE /\ servers' = servers \cup {server}
            /\ ring' = SetVirtualNodes(ring, server, 0)
            /\ sortedPositions' = updateSortedPositions(ring')
            /\ removed' = removed \ {server}
            /\ before' = Snapshot(servers, ring, sortedPositions)
    /\ UNCHANGED <<virtualNodes, hashOf, search>>

\* A faulty variant: sortedPositions is not rebuilt.
RemoveServer_NoUpdate(server) ==
    /\ lastCall' = Call("removeServer", server, NoKey,
                        IF server \notin servers THEN "doesn't exist" ELSE "Removed",
                        NoError, Undefined, EmptyMap)
    /\ IF server \notin servers
       THEN UNCHANGED <<servers, ring, sortedPositions, removed>>
       ELSE /\ servers' = servers \ {server}
            /\ ring' = DeleteVirtualNodes(ring, server, 0)
            /\ sortedPositions' = sortedPositions
            /\ removed' = removed \cup {server}
    /\ before' = NoSnapshot
    /\ UNCHANGED <<virtualNodes, hashOf, search>>

\* A faulty variant: the server is not deleted from servers.
RemoveServer_KeepMember(server) ==
    /\ lastCall' = Call("removeServer", server, NoKey,
                        IF server \notin servers THEN "doesn't exist" ELSE "Removed",
                        NoError, Undefined, EmptyMap)
    /\ IF server \notin servers
       THEN UNCHANGED <<servers, ring, sortedPositions, removed>>
       ELSE /\ servers' = servers
            /\ ring' = DeleteVirtualNodes(ring, server, 0)
            /\ sortedPositions' = updateSortedPositions(ring')
            /\ removed' = removed
    /\ before' = NoSnapshot
    /\ UNCHANGED <<virtualNodes, hashOf, search>>

RemoveServer(server) ==
    /\ lastCall' = Call("removeServer", server, NoKey,
                        IF server \notin servers THEN "doesn't exist" ELSE "Removed",
                        NoError, Undefined, EmptyMap)
    /\ IF server \notin servers
       THEN UNCHANGED <<servers, ring, sortedPositions, removed>>
       ELSE /\ servers' = servers \ {server}
            /\ ring' = DeleteVirtualNodes(ring, server, 0)
            /\ sortedPositions' = updateSortedPositions(ring')
            /\ removed' = removed \cup {server}
    /\ before' = NoSnapshot
    /\ UNCHANGED <<virtualNodes, hashOf, search>>

\* A faulty variant: the wraparound position read with sortedPositions.shift().
GetServer_Shift(key) ==
    /\ LET got == getServer(ring, sortedPositions, key)
       IN  lastCall' = Call("getServer", NoServer, key, NoLog, got.error, got.result, EmptyMap)
    /\ sortedPositions' = IF sortedPositions # <<>> /\ hash(key) > sortedPositions[Len(sortedPositions)]
                          THEN Tail(sortedPositions) ELSE sortedPositions
    /\ before' = NoSnapshot
    /\ UNCHANGED <<virtualNodes, ring, servers, hashOf, removed, search>>

GetServer(key) ==
    /\ LET got == getServer(ring, sortedPositions, key)
       IN  lastCall' = Call("getServer", NoServer, key, NoLog, got.error, got.result, EmptyMap)
    /\ before' = NoSnapshot
    /\ UNCHANGED <<virtualNodes, ring, servers, sortedPositions, hashOf, removed, search>>

GetDistribution ==
    /\ LET got == getDistribution(ring, sortedPositions, servers)
       IN  lastCall' = Call("getDistribution", NoServer, NoKey, NoLog, got.error, Undefined,
                            got.distribution)
    /\ before' = NoSnapshot
    /\ UNCHANGED <<virtualNodes, ring, servers, sortedPositions, hashOf, removed, search>>

Next ==
    \/ \E server \in Servers : AddServer(server)
    \/ \E server \in Servers : RemoveServer(server)
    \/ \E key \in Keys : GetServer(key)
    \/ GetDistribution

Spec == Init /\ [][Next]_vars

\* ------------------------------------------- getServer, one iteration a step

\* A faulty variant: left = mid.
LoopBody_NoAdvance(sp, position, left, right) ==
    LET mid == (left + right) \div 2
    IN  IF sp[mid + 1] < position
        THEN [left |-> mid, right |-> right]
        ELSE [left |-> left, right |-> mid]

\* One iteration of the while loop of getServer: the new left and right.
LoopBody(sp, position, left, right) ==
    LET mid == (left + right) \div 2
    IN  IF sp[mid + 1] < position
        THEN [left |-> mid + 1, right |-> right]
        ELSE [left |-> left, right |-> mid]

\* A call runs to completion before the next one starts.
SearchAddServer(server) == search.pc = "idle" /\ AddServer(server)

\* getServer(key) on a ring with no position: the throw of line 69.
SearchThrow(key) == search.pc = "idle" /\ sortedPositions = <<>> /\ GetServer(key)

\* getServer(key) up to the loop: position, left and right are set.
BeginSearch(key) ==
    /\ search.pc = "idle"
    /\ sortedPositions # <<>>
    /\ search' = Searching(key, hash(key), 0, Len(sortedPositions) - 1)
    /\ UNCHANGED <<virtualNodes, ring, servers, sortedPositions, hashOf, lastCall,
                   removed, before>>

\* One iteration while left < right.
SearchStep ==
    /\ search.pc = "loop"
    /\ search.left < search.right
    /\ LET new == LoopBody(sortedPositions, search.position, search.left, search.right)
       IN  search' = [search EXCEPT !.left = new.left, !.right = new.right]
    /\ UNCHANGED <<virtualNodes, ring, servers, sortedPositions, hashOf, lastCall,
                   removed, before>>

\* The loop is left: the wraparound test and the return of ring.get(serverPosition).
EndSearch ==
    /\ search.pc = "loop"
    /\ ~(search.left < search.right)
    /\ LET serverPosition ==
               IF sortedPositions[search.left + 1] >= search.position
               THEN sortedPositions[search.left + 1]
               ELSE sortedPositions[1]
       IN  lastCall' = Call("getServer", NoServer, search.key, NoLog, NoError,
                            MapGet(ring, serverPosition), EmptyMap)
    /\ search' = Idle
    /\ before' = NoSnapshot
    /\ UNCHANGED <<virtualNodes, ring, servers, sortedPositions, hashOf, removed>>

SearchNext ==
    \/ \E server \in Servers : SearchAddServer(server)
    \/ \E key \in Keys : SearchThrow(key)
    \/ \E key \in Keys : BeginSearch(key)
    \/ SearchStep
    \/ EndSearch

\* Rings built by addServer calls and looked up an iteration at a time; a call
\* that has started goes on running.
SearchSpec ==
    Init /\ [][SearchNext]_vars /\ WF_vars(SearchStep) /\ WF_vars(EndSearch)

\* ------------------------------------------------- what the claims speak of

\* What getServer(key) gives in the current state, and in the next one.
Lookup(key) == getServer(ring, sortedPositions, key)
LookupNext(key) == getServer(ring', sortedPositions', key)

\* The elements of an array.
Elements(seq) == {seq[i] : i \in 1..Len(seq)}

\* The clockwise successor of a position among the positions P (non-empty): the
\* smallest one at or after it, or the smallest of all when there is none.
Least(P) == CHOOSE p \in P : \A q \in P : p <= q
ClockwiseSuccessor(P, position) ==
    IF \E p \in P : p >= position
    THEN Least({p \in P : p >= position})
    ELSE Least(P)

\* The last call was an addServer / removeServer that changed the membership.
Added(server) ==
    lastCall.op = "addServer" /\ lastCall.server = server /\ lastCall.log = "Added"
Removed(server) ==
    lastCall.op = "removeServer" /\ lastCall.server = server /\ lastCall.log = "Removed"

\* The step is a call of addServer / removeServer that changes the membership.
Adding(server) ==
    lastCall'.op = "addServer" /\ lastCall'.server = server /\ server \notin servers
Removing(server) ==
    lastCall'.op = "removeServer" /\ lastCall'.server = server /\ server \in servers

IsLookup(call) == call.op \in {"getServer", "getDistribution"}

\* ------------------------------------------------------------------- C1

\* C1: getServer succeeds for every key whenever servers is non-empty, and
\* fails with "No servers available" if and only if servers is empty; the
\* same holds of the getServer call that has just completed.
C1_TotalityModuloEmptiness ==
    /\ \A key \in Keys : (Lookup(key).error = NoServersAvailable) <=> (servers = {})
    /\ lastCall.op = "getServer" =>
          ((lastCall.error = NoServersAvailable) <=> (servers = {}))

\* ------------------------------------------------------------------- C2

\* C2: whenever sortedPositions is non-empty, getServer(key) returns ring[p]
\* for p the smallest position of sortedPositions that is >= hash(key), or the
\* smallest position of all when hash(key) is greater than every position.
C2_ClockwiseSuccessor ==
    /\ sortedPositions # <<>> =>
          \A key \in Keys :
              LET p == ClockwiseSuccessor(Elements(sortedPositions), hash(key))
              IN  /\ Lookup(key).error = NoError
                  /\ p \in DOMAIN ring
                  /\ Lookup(key).result = ring[p]
    /\ (lastCall.op = "getServer" /\ lastCall.error = NoError) =>
          /\ sortedPositions # <<>>
          /\ lastCall.result =
                ring[ClockwiseSuccessor(Elements(sortedPositions), hash(lastCall.key))]

\* A lookup that wrapped around a ring of several positions, answered by the
\* owner of the smallest one.
C2_Witness ==
    /\ lastCall.op = "getServer"
    /\ lastCall.error = NoError
    /\ Len(sortedPositions) >= 2
    /\ \A p \in DOMAIN ring : p < hash(lastCall.key)
    /\ lastCall.result = ring[sortedPositions[1]]
    /\ ring[sortedPositions[1]] # ring[sortedPositions[Len(sortedPositions)]]

\* ------------------------------------------------------------------- C3

\* C3: after removeServer(s) of a registered server s, every key that was
\* mapped to a server other than s is mapped to the same server, and every key
\* that was mapped to s is mapped to the owner of the next surviving position
\* clockwise from the key's hash.
C3_RemovalMovesOnlyOwnKeys ==
    [][\A s \in Servers : Removing(s) =>
          \A key \in Keys :
              /\ (Lookup(key).error = NoError /\ Lookup(key).result # s) =>
                    LookupNext(key) = Lookup(key)
              /\ (Lookup(key).error = NoError /\ Lookup(key).result = s
                    /\ DOMAIN ring' # {}) =>
                    /\ LookupNext(key).error = NoError
                    /\ LookupNext(key).result =
                          ring'[ClockwiseSuccessor(DOMAIN ring', hash(key))]
      ]_vars

\* ------------------------------------------------------------------- C4

\* C4: after addServer(s) of an unregistered server s on a ring with at least
\* one server, every key is mapped to the same server as before or to s.
C4_AdditionMovesKeysOnlyToNewServer ==
    [][\A s \in Servers : (Adding(s) /\ servers # {}) =>
          \A key \in Keys :
              /\ LookupNext(key).error = NoError
              /\ \/ LookupNext(key).result = s
                 \/ LookupNext(key) = Lookup(key)
      ]_vars

\* A third server has just been added; it took some key, and two keys are
\* with two different servers that were there before.
C4_Witness ==
    \E s \in Servers :
        /\ Added(s)
        /\ Cardinality(servers) = 3
        /\ \E k1, k2, k3 \in Keys :
              /\ Lookup(k1).result = s
              /\ Lookup(k2).result \in servers \ {s}
              /\ Lookup(k3).result \in servers \ {s, Lookup(k2).result}

\* ------------------------------------------------------------------- C5

\* C5 as claimed: once s is removed and until it is added again, ring has no
\* entry at any of s's virtual-node positions and getServer returns s for no key.
C5_Original ==
    \A s \in removed :
        /\ VirtualPositions(s) \cap DOMAIN ring = {}
        /\ \A key \in Keys : Lookup(key).result # s

\* C5 as amended: right after removeServer(s) ring has no entry at any of s's
\* virtual-node positions; until s is added again ring has no entry owned by s
\* (another server's colliding virtual node may take such a position again)
\* and getServer returns s for no key.
C5_RemovalCompleteness ==
    /\ \A s \in Servers : Removed(s) => VirtualPositions(s) \cap DOMAIN ring = {}
    /\ \A s \in removed :
          /\ s \notin servers
          /\ \A p \in DOMAIN ring : ring[p] # s
          /\ \A key \in Keys : Lookup(key).result # s

\* A removed server one of whose positions is taken again by another server.
C5_Witness ==
    \E s \in removed : \E p \in VirtualPositions(s) :
        p \in DOMAIN ring /\ ring[p] \in servers \ {s}

\* ------------------------------------------------------------------- C6

\* C6: addServer(s) with s registered and removeServer(s) with s not registered
\* raise no error and leave servers, ring and sortedPositions unchanged.
C6_RedundantMembershipNoOp ==
    [][\A s \in Servers :
          (\/ lastCall'.op = "addServer" /\ lastCall'.server = s /\ s \in servers
           \/ lastCall'.op = "removeServer" /\ lastCall'.server = s /\ s \notin servers)
          => /\ lastCall'.error = NoError
             /\ UNCHANGED <<servers, ring, sortedPositions>>
      ]_vars

\* A redundant addServer(s) while one of s's positions is owned by another server.
C6_Witness ==
    /\ lastCall.op = "addServer"
    /\ lastCall.log = "already exists"
    /\ \E p \in VirtualPositions(lastCall.server) :
          p \in DOMAIN ring /\ ring[p] # lastCall.server

\* ------------------------------------------------------------------- C7

\* C7: in every state between calls sortedPositions is the keys of ring in
\* strictly ascending order, none missing, none extra, none twice.
C7_SortedPositionsMatchRing ==
    /\ Elements(sortedPositions) = DOMAIN ring
    /\ Len(sortedPositions) = Cardinality(DOMAIN ring)
    /\ \A i \in 1..(Len(sortedPositions) - 1) : sortedPositions[i] < sortedPositions[i + 1]

\* A removal has left several positions on the ring.
C7_Witness ==
    /\ \E s \in Servers : Removed(s)
    /\ Len(sortedPositions) >= 2

\* ------------------------------------------------------------------- C8

\* C8: after addServer(s) on an empty ring, if the virtualNodes virtual-node
\* keys of s hash to pairwise distinct positions, ring has exactly virtualNodes
\* entries and each maps to s.
C8_VirtualNodeCount ==
    [][\A s \in Servers :
          (Adding(s) /\ servers = {}
             /\ Cardinality(VirtualPositions(s)) = virtualNodes)
          => /\ Cardinality(DOMAIN ring') = virtualNodes
             /\ \A p \in DOMAIN ring' : ring'[p] = s
      ]_vars

\* The only server has just been added with two virtual nodes at two positions.
C8_Witness ==
    \E s \in Servers :
        /\ Added(s)
        /\ servers = {s}
        /\ virtualNodes = 2
        /\ Cardinality(VirtualPositions(s)) = 2
        /\ Cardinality(DOMAIN ring) = 2

\* ------------------------------------------------------------------- C9

\* C9: a getServer or getDistribution call leaves servers, ring and
\* sortedPositions unchanged, so every key is mapped after it as before it, and
\* a getServer call returns what a getServer call on that key gave before it.
C9_LookupsReadOnly ==
    [][IsLookup(lastCall') =>
          /\ UNCHANGED <<servers, ring, sortedPositions>>
          /\ \A key \in Keys : LookupNext(key) = Lookup(key)
          /\ lastCall'.op = "getServer" =>
                /\ lastCall'.error = Lookup(lastCall'.key).error
                /\ lastCall'.result = Lookup(lastCall'.key).result
                /\ (lastCall.op = "getServer" /\ lastCall.key = lastCall'.key) =>
                      lastCall'.result = lastCall.result
      ]_vars

\* A lookup on a ring of several servers has returned a server.
C9_Witness ==
    /\ lastCall.op = "getServer"
    /\ lastCall.error = NoError
    /\ lastCall.result \in servers
    /\ Cardinality(servers) >= 2
    /\ Len(sortedPositions) >= 2

\* ------------------------------------------------------------------ C10

\* C10: "No servers available" is raised only by getServer and
\* getDistribution and only when no server is registered; getDistribution with
\* no server registered raises it.
C10_NoServersErrorOnlyWhenEmpty ==
    /\ lastCall.error = NoServersAvailable => (IsLookup(lastCall) /\ servers = {})
    /\ (lastCall.op = "getDistribution" /\ servers = {}) =>
          lastCall.error = NoServersAvailable
    /\ getDistribution(ring, sortedPositions, servers).error = NoServersAvailable
          <=> servers = {}

\* ------------------------------------------------------------------ C11

\* How many times a value occurs in an array.
Occurrences(seq, v) == Cardinality({i \in 1..Len(seq) : seq[i] = v})

\* C11: when addServer(s) of an unregistered s completes, every position p at
\* which a virtual node of s and one of an already registered server t collide
\* is owned by s, the later of the two, and has exactly one entry.
C11_LastWriteWins ==
    [][\A s \in Servers : Adding(s) =>
          \A t \in servers : \A p \in VirtualPositions(s) \cap VirtualPositions(t) :
              /\ p \in DOMAIN ring'
              /\ ring'[p] = s
              /\ Occurrences(sortedPositions', p) = 1
      ]_vars

\* A server has just been added over a position of another registered server.
C11_Witness ==
    \E s \in Servers : \E t \in servers \ {s} :
        /\ Added(s)
        /\ \E p \in VirtualPositions(s) \cap VirtualPositions(t) :
              ring[p] = s /\ Occurrences(sortedPositions, p) = 1
        /\ \E q \in DOMAIN ring : ring[q] = t

\* ------------------------------------------------------------------ C12

\* The sum of the counts of a distribution.
RECURSIVE Total(_)
Total(d) ==
    IF DOMAIN d = {} THEN 0
    ELSE LET s == CHOOSE x \in DOMAIN d : TRUE
         IN  d[s] + Total([x \in (DOMAIN d) \ {s} |-> d[x]])

\* A distribution as getDistribution is to return it: a count for each
\* registered server and for nothing else, the counts summing to the number of
\* sample keys.
WellFormedDistribution(d) ==
    /\ DOMAIN d = servers
    /\ \A s \in DOMAIN d : d[s] \in 0..NumSampleKeys
    /\ Total(d) = NumSampleKeys

\* C12: whenever the ring has a position, getDistribution returns a mapping
\* whose keys are exactly the registered servers and whose counts sum to the
\* number of sample keys; so does the getDistribution call just completed.
C12_DistributionOverServers ==
    /\ sortedPositions # <<>> =>
          LET got == getDistribution(ring, sortedPositions, servers)
          IN  got.error = NoError /\ WellFormedDistribution(got.distribution)
    /\ (lastCall.op = "getDistribution" /\ lastCall.error = NoError) =>
          WellFormedDistribution(lastCall.distribution)

\* getDistribution has returned a distribution in which a registered server
\* has no key and another has several.
C12_Witness ==
    /\ lastCall.op = "getDistribution"
    /\ lastCall.error = NoError
    /\ \E s, u \in servers : lastCall.distribution[s] = 0 /\ lastCall.distribution[u] >= 2

\* ------------------------------------------------------------------ C13

\* C13: the binary-search loop of getServer terminates for every non-empty
\* sortedPositions and every key position: each iteration strictly shrinks the
\* interval [left, right] within the previous one, left and right stay valid
\* indices of sortedPositions, every call in its loop returns, and it returns
\* what the loop run as a whole gives.
C13_SearchTerminates ==
    /\ [][(search.pc = "loop" /\ search'.pc = "loop") =>
             /\ search'.right - search'.left < search.right - search.left
             /\ search.left <= search'.left
             /\ search'.left <= search'.right
             /\ search'.right <= search.right
         ]_vars
    /\ [](search.pc = "loop" =>
             /\ 0 <= search.left
             /\ search.left <= search.right
             /\ search.right <= Len(sortedPositions) - 1)
    /\ [][(search.pc = "loop" /\ search'.pc = "idle") =>
             /\ search.left = search.right
             /\ search.left =
                   BinarySearch(sortedPositions, search.position, 0, Len(sortedPositions) - 1)
             /\ lastCall'.error = NoError
             /\ lastCall'.result = Lookup(search.key).result
         ]_vars
    /\ (search.pc = "loop") ~> (search.pc = "idle")

\* A loop that has run its iterations down to the last index of three.
C13_Witness ==
    /\ search.pc = "loop"
    /\ Len(sortedPositions) = 3
    /\ search.left = 2
    /\ search.right = 2

\* ------------------------------------------------------------------ C14

\* C14: whenever a call leaves servers empty, ring and sortedPositions are
\* empty too and getServer fails; and the addServer(s) that follows on a ring
\* with no server makes getServer succeed, with s, for every key.
C14_EmptyAndBack ==
    [][/\ servers' = {} =>
             /\ ring' = EmptyMap
             /\ sortedPositions' = <<>>
             /\ \A key \in Keys : LookupNext(key).error = NoServersAvailable
       /\ \A s \in Servers : (Adding(s) /\ servers = {}) =>
             \A key \in Keys :
                 LookupNext(key).error = NoError /\ LookupNext(key).result = s
      ]_vars

\* After removals emptied the ring, a server has been added again and every
\* key is mapped to it.
C14_Witness ==
    \E s \in Servers :
        /\ Added(s)
        /\ servers = {s}
        /\ removed # {}
        /\ before = NoSnapshot
        /\ \A key \in Keys : Lookup(key).result = s

\* ------------------------------------------------------------------ C15

\* C15: every entry ring[p] = s has s registered and p among the virtual-node
\* positions of s; so ring has at most virtualNodes entries per registered server.
C15_NoOrphanEntries ==
    /\ \A p \in DOMAIN ring :
          ring[p] \in servers /\ p \in VirtualPositions(ring[p])
    /\ Cardinality(DOMAIN ring) <= virtualNodes * Cardinality(servers)

\* After a removal, among servers that collide, the ring has fewer entries
\* than virtualNodes per server.
C15_Witness ==
    /\ \E s \in Servers : Removed(s)
    /\ Cardinality(servers) >= 2
    /\ ring # EmptyMap
    /\ Cardinality(DOMAIN ring) < virtualNodes * Cardinality(servers)

\* ------------------------------------------------------------------ C16

\* C16: every successful getServer returns a server that is registered: never
\* undefined, never a server that has been removed.
C16_LookupReturnsMember ==
    /\ \A key \in Keys : Lookup(key).error = NoError => Lookup(key).result \in servers
    /\ (lastCall.op = "getServer" /\ lastCall.error = NoError) =>
          /\ lastCall.result \in servers
          /\ lastCall.result \notin removed
          /\ lastCall.result # Undefined

\* A lookup has succeeded on a ring from which a server was removed, for a
\* key whose position that server had.
C16_Witness ==
    /\ lastCall.op = "getServer"
    /\ lastCall.error = NoError
    /\ lastCall.result \in servers
    /\ \E s \in removed : hash(lastCall.key) \in VirtualPositions(s)

\* ------------------------------------------------------------------ C17

\* C17: addServer(s) of an unregistered s none of whose virtual-node positions
\* has an entry in ring, followed at once by removeServer(s), leaves servers,
\* ring and sortedPositions as they were before the addServer call.
C17_AddRemoveRoundTrip ==
    [][\A s \in Servers :
          (Added(s) /\ Removing(s)
             /\ VirtualPositions(s) \cap DOMAIN before.ring = {})
          => /\ servers' = before.servers
             /\ ring' = before.ring
             /\ sortedPositions' = before.sortedPositions
      ]_vars

\* A server has just been added to a ring of other
\* servers, at positions that had no entry; removeServer can follow.
C17_Witness ==
    \E s \in Servers :
        /\ Added(s)
        /\ before.servers # {}
        /\ before.ring # EmptyMap
        /\ VirtualPositions(s) \cap DOMAIN before.ring = {}
        /\ DOMAIN ring = (DOMAIN before.ring) \cup VirtualPositions(s)
        /\ ENABLED RemoveServer(s)

\* ------------------------------------------------------------------ C18

\* The virtual-node positions of the servers S are pairwise distinct.
AllDistinct(S) ==
    Cardinality(UNION {VirtualPositions(s) : s \in S}) = virtualNodes * Cardinality(S)

\* The ring that maps each virtual-node position of the servers S to its server.
RingOf(S) ==
    [p \in UNION {VirtualPositions(s) : s \in S} |->
        CHOOSE s \in S : p \in VirtualPositions(s)]

\* seq is the strictly ascending array of the numbers P.
AscendingArrayOf(seq, P) ==
    /\ Elements(seq) = P
    /\ \A i \in 1..(Len(seq) - 1) : seq[i] < seq[i + 1]

\* C18: when the servers added to the empty ring, none of them removed, have
\* pairwise distinct virtual-node positions, ring and sortedPositions are
\* determined by the set of servers alone, whatever the order of the addServer
\* calls, and so is every getServer result.
C18_OrderIndependence ==
    (removed = {} /\ AllDistinct(servers)) =>
        /\ ring = RingOf(servers)
        /\ AscendingArrayOf(sortedPositions, DOMAIN RingOf(servers))
        /\ servers # {} =>
              \A key \in Keys :
                  /\ Lookup(key).error = NoError
                  /\ Lookup(key).result =
                        RingOf(servers)[ClockwiseSuccessor(DOMAIN RingOf(servers), hash(key))]

\* Three servers at three distinct positions have been added, the last one
\* not at the greatest position.
C18_Witness ==
    \E s \in Servers :
        /\ Added(s)
        /\ servers = Servers
        /\ removed = {}
        /\ AllDistinct(servers)
        /\ \E p \in DOMAIN ring : ring[p] # s /\ \A q \in VirtualPositions(s) : q < p

====
